---- MODULE Spec2Model ----
(***************************************************************************)
(* Model of the scoring core of ecotrack:                                  *)
(*   data/te.py            calculate_economic_score                        *)
(*   analysis/indicators.py get_market_sentiment, calculate_rsi            *)
(*   analysis/investment.py analyze_fed_vietnam_correlation,               *)
(*                          analyze_vietnam_macro_market_correlation,      *)
(*                          generate_comprehensive_investment_recommendation *)
(*                                                                         *)
(* Numbers are fixed point.  Indicator values and RSI values are integers  *)
(* counting tenths (gdp 7.0% is 70), the policy-rate change counts         *)
(* hundredths (0.25 is 25).  Every threshold of the source is exactly      *)
(* representable as a binary float and so is every grid value's ordering   *)
(* against it, so integer comparison agrees with the float comparison.     *)
(* A Python value is a record [kind, v]: kind "none" is None (or a missing *)
(* key read with .get), kind "nan" is float NaN, kind "num" is a number.   *)
(***************************************************************************)
EXTENDS Integers, Sequences, FiniteSets, TLC

VARIABLES vn_data, pc, score, rating, factors, rsi_value, sentiment, spc,
          prices, period, rsi, rpc,
          us_data, vn_market, global_context, vn_economic, risk_tolerance,
          fed_analysis, bundle, ipc,
          df, variant, indicators, tpc,
          sector_data, rotation_signals, apc

vars == <<vn_data, pc, score, rating, factors, rsi_value, sentiment, spc,
          prices, period, rsi, rpc,
          us_data, vn_market, global_context, vn_economic, risk_tolerance,
          fed_analysis, bundle, ipc,
          df, variant, indicators, tpc,
          sector_data, rotation_signals, apc>>
scoreVars == <<vn_data, pc, score, rating, factors>>
sentimentVars == <<rsi_value, sentiment, spc>>
rsiVars == <<prices, period, rsi, rpc>>
investInputs == <<us_data, vn_market, global_context, vn_economic, risk_tolerance>>
investVars == <<investInputs, fed_analysis, bundle, ipc>>
techVars == <<df, variant, indicators, tpc>>
rotationVars == <<sector_data, rotation_signals, apc>>

(* ------------------------------------------------------------------ *)
(* Python values                                                       *)
(* ------------------------------------------------------------------ *)
None == [kind |-> "none", v |-> 0]
NaN == [kind |-> "nan", v |-> 0]
Num(n) == [kind |-> "num", v |-> n]

\* x > t, x < t, ... on floats: every comparison with NaN is False.
PyGt(x, t) == x.kind = "num" /\ x.v > t
PyLt(x, t) == x.kind = "num" /\ x.v < t
PyGe(x, t) == x.kind = "num" /\ x.v >= t
PyLe(x, t) == x.kind = "num" /\ x.v <= t

Abs(n) == IF n < 0 THEN 0 - n ELSE n

\* f"{x:.1f}" of a value counted in tenths.
Fmt1(n) ==
    (IF n < 0 THEN "-" ELSE "") \o ToString(Abs(n) \div 10) \o "." \o ToString(Abs(n) % 10)

\* f"{x:.2f}" of a value counted in tenths.
Fmt2(n) == Fmt1(n) \o "0"

\* f"{x:.0f}" of a value counted in tenths: round half to even (x.5 is exact
\* in binary, so the tie is a real tie).
Fmt0(n) ==
    LET q == Abs(n) \div 10
        r == Abs(n) % 10
        up == r > 5 \/ (r = 5 /\ q % 2 = 1)
        m == IF up THEN q + 1 ELSE q
    IN  (IF n < 0 /\ m > 0 THEN "-" ELSE "") \o ToString(m)

(* ------------------------------------------------------------------ *)
(* Input grid                                                          *)
(* ------------------------------------------------------------------ *)
\* Distance, in grid units, of the sample taken past each threshold.
Spread == 5

ScoredKeys ==
    <<"gdp_growth_yoy", "inflation_rate", "manufacturing_pmi",
      "balance_of_trade", "fx_reserves", "policy_rate">>

GdpValues == {40, 70} \cup {50, 50 + Spread, 65, 65 + Spread}
InflationValues == {20 - Spread, 20, 40, 40 + Spread, 60, 60 + Spread}
PmiValues == {500, 500 + Spread, 520, 520 + Spread}
TradeValues == {-10, -10 + Spread, 10, 10 + Spread}
FxValues == {800, 800 + Spread, 1000, 1000 + Spread}
PolicyRates == {450}
PolicyChanges == {-25 - Spread, -25, 25, 25 + Spread}

\* One entry of the snapshot: te.py builds {"name","value","previous","date",
\* "unit","change"}; the score reads "value" and, for the policy rate, "change".
Entry(val, chg) == [value |-> val, change |-> chg]

ValueEntries(S) == {Entry(Num(n), None) : n \in S} \cup {Entry(None, None)}

PolicyEntries ==
    {Entry(Num(r), Num(c)) : r \in PolicyRates, c \in PolicyChanges}
        \cup {Entry(Num(r), None) : r \in PolicyRates}
        \cup {Entry(None, None), Entry(None, Num(-25 - Spread))}

EntriesOf(i) ==
    CASE i = 1 -> ValueEntries(GdpValues)
      [] i = 2 -> ValueEntries(InflationValues)
      [] i = 3 -> ValueEntries(PmiValues)
      [] i = 4 -> ValueEntries(TradeValues)
      [] i = 5 -> ValueEntries(FxValues)
      [] i = 6 -> PolicyEntries

\* <<>> : the key is absent; <<e>> : the key maps to entry e.
Opt(i) == {<<>>} \cup {<<e>> : e \in EntriesOf(i)}

MkSnapshot(o) ==
    [k \in {ScoredKeys[i] : i \in {j \in 1..6 : o[j] # <<>>}} |->
        o[CHOOSE i \in 1..6 : ScoredKeys[i] = k][1]]

(* ------------------------------------------------------------------ *)
(* calculate_economic_score                                            *)
(* ------------------------------------------------------------------ *)
\* A factor string f"{icon} {label} ({shown})"; icon is the coloured dot.
Factor(icon, label, shown) == [icon |-> icon, label |-> label, shown |-> shown]

\* The guard without its `is not None` half.
HasValue_KeyOnly(d, k) == k \in DOMAIN d

\* `"k" in vn_data and vn_data["k"]["value"] is not None`
HasValue(d, k) == k \in DOMAIN d /\ d[k].value # None

\* The running state started from 0 instead of the neutral 50.
Start_Zero == [score |-> 0, factors |-> <<>>, raised |-> FALSE]

\* The running state of the function body: score, factors, and whether a
\* TypeError was raised (a comparison of None with a number).
Start == [score |-> 50, factors |-> <<>>, raised |-> FALSE]

Add(st, delta) == [st EXCEPT !.score = @ + delta]
\* factors.insert(0, f) in place of factors.append(f).
AddFactor_Prepend(st, delta, f) ==
    [st EXCEPT !.score = @ + delta, !.factors = <<f>> \o @]

AddFactor(st, delta, f) == [st EXCEPT !.score = @ + delta, !.factors = Append(@, f)]
Raise(st) == [st EXCEPT !.raised = TRUE]

\* The GDP ladder with `>=` at 6.5.
GdpBranch_Inclusive(st, d) ==
    IF st.raised \/ ~HasValue(d, "gdp_growth_yoy") THEN st
    ELSE LET x == d["gdp_growth_yoy"].value IN
         IF x = None THEN Raise(st)
         ELSE IF PyGe(x, 65) THEN
                AddFactor(st, 15, Factor("green", "Strong GDP growth", Fmt1(x.v) \o "%"))
         ELSE IF PyGt(x, 50) THEN
                AddFactor(st, 10, Factor("yellow", "Moderate GDP growth", Fmt1(x.v) \o "%"))
         ELSE   AddFactor(st, -10, Factor("red", "Slow GDP growth", Fmt1(x.v) \o "%"))

\* The GDP ladder with the strong branch worth 5 points.
GdpBranch_WeakStrong(st, d) ==
    IF st.raised \/ ~HasValue(d, "gdp_growth_yoy") THEN st
    ELSE LET x == d["gdp_growth_yoy"].value IN
         IF x = None THEN Raise(st)
         ELSE IF PyGt(x, 65) THEN
                AddFactor(st, 5, Factor("green", "Strong GDP growth", Fmt1(x.v) \o "%"))
         ELSE IF PyGt(x, 50) THEN
                AddFactor(st, 10, Factor("yellow", "Moderate GDP growth", Fmt1(x.v) \o "%"))
         ELSE   AddFactor(st, -10, Factor("red", "Slow GDP growth", Fmt1(x.v) \o "%"))

GdpBranch(st, d) ==
    IF st.raised \/ ~HasValue(d, "gdp_growth_yoy") THEN st
    ELSE LET x == d["gdp_growth_yoy"].value IN
         IF x = None THEN Raise(st)
         ELSE IF PyGt(x, 65) THEN
                AddFactor(st, 15, Factor("green", "Strong GDP growth", Fmt1(x.v) \o "%"))
         ELSE IF PyGt(x, 50) THEN
                AddFactor(st, 10, Factor("yellow", "Moderate GDP growth", Fmt1(x.v) \o "%"))
         ELSE   AddFactor(st, -10, Factor("red", "Slow GDP growth", Fmt1(x.v) \o "%"))

InflationBranch(st, d) ==
    IF st.raised \/ ~HasValue(d, "inflation_rate") THEN st
    ELSE LET x == d["inflation_rate"].value IN
         IF x = None THEN Raise(st)
         ELSE IF PyGe(x, 20) /\ PyLe(x, 40) THEN
                AddFactor(st, 12, Factor("green", "Healthy inflation", Fmt1(x.v) \o "%"))
         ELSE IF PyLt(x, 20) \/ PyGt(x, 60) THEN
                AddFactor(st, -8, Factor("red", "Concerning inflation", Fmt1(x.v) \o "%"))
         ELSE   AddFactor(st, 5, Factor("yellow", "Elevated inflation", Fmt1(x.v) \o "%"))

\* The PMI ladder reading a missing PMI as 0.
PmiBranch_DefaultZero(st, d) ==
    IF st.raised THEN st
    ELSE LET x == IF HasValue(d, "manufacturing_pmi")
                    THEN d["manufacturing_pmi"].value ELSE Num(0) IN
         IF PyGt(x, 520) THEN
                AddFactor(st, 10, Factor("green", "Expanding manufacturing", "PMI: " \o Fmt1(x.v)))
         ELSE IF PyGt(x, 500) THEN
                AddFactor(st, 5, Factor("yellow", "Slight expansion", "PMI: " \o Fmt1(x.v)))
         ELSE   AddFactor(st, -8, Factor("red", "Contracting manufacturing", "PMI: " \o Fmt1(x.v)))

\* The PMI ladder with the contraction branch adding its 8 points.
PmiBranch_SignSlip(st, d) ==
    IF st.raised \/ ~HasValue(d, "manufacturing_pmi") THEN st
    ELSE LET x == d["manufacturing_pmi"].value IN
         IF x = None THEN Raise(st)
         ELSE IF PyGt(x, 520) THEN
                AddFactor(st, 10, Factor("green", "Expanding manufacturing", "PMI: " \o Fmt1(x.v)))
         ELSE IF PyGt(x, 500) THEN
                AddFactor(st, 5, Factor("yellow", "Slight expansion", "PMI: " \o Fmt1(x.v)))
         ELSE   AddFactor(st, 8, Factor("red", "Contracting manufacturing", "PMI: " \o Fmt1(x.v)))

PmiBranch(st, d) ==
    IF st.raised \/ ~HasValue(d, "manufacturing_pmi") THEN st
    ELSE LET x == d["manufacturing_pmi"].value IN
         IF x = None THEN Raise(st)
         ELSE IF PyGt(x, 520) THEN
                AddFactor(st, 10, Factor("green", "Expanding manufacturing", "PMI: " \o Fmt1(x.v)))
         ELSE IF PyGt(x, 500) THEN
                AddFactor(st, 5, Factor("yellow", "Slight expansion", "PMI: " \o Fmt1(x.v)))
         ELSE   AddFactor(st, -8, Factor("red", "Contracting manufacturing", "PMI: " \o Fmt1(x.v)))

TradeBranch(st, d) ==
    IF st.raised \/ ~HasValue(d, "balance_of_trade") THEN st
    ELSE LET x == d["balance_of_trade"].value IN
         IF x = None THEN Raise(st)
         ELSE IF PyGt(x, 10) THEN
                AddFactor(st, 8, Factor("green", "Trade surplus", "$" \o Fmt1(x.v) \o "B"))
         ELSE IF PyGt(x, -10) THEN
                AddFactor(st, 3, Factor("yellow", "Balanced trade", "$" \o Fmt1(x.v) \o "B"))
         ELSE   AddFactor(st, -5, Factor("red", "Trade deficit", "$" \o Fmt1(x.v) \o "B"))

FxBranch(st, d) ==
    IF st.raised \/ ~HasValue(d, "fx_reserves") THEN st
    ELSE LET x == d["fx_reserves"].value IN
         IF x = None THEN Raise(st)
         ELSE IF PyGt(x, 1000) THEN
                AddFactor(st, 7, Factor("green", "Strong FX reserves", "$" \o Fmt0(x.v) \o "B"))
         ELSE IF PyGt(x, 800) THEN Add(st, 3)
         ELSE   Add(st, -3)

PolicyBranch(st, d) ==
    IF st.raised \/ ~HasValue(d, "policy_rate") THEN st
    ELSE LET x == d["policy_rate"].value
             change == d["policy_rate"].change
         IN
         IF change = None THEN st
         ELSE IF PyLt(change, -25) THEN
                IF x = None THEN Raise(Add(st, 8)) ELSE
                AddFactor(st, 8, Factor("green", "Accommodative policy",
                                        "Rate: " \o Fmt2(x.v) \o "%, down"))
         ELSE IF PyGt(change, 25) THEN
                IF x = None THEN Raise(Add(st, -5)) ELSE
                AddFactor(st, -5, Factor("red", "Tightening policy",
                                         "Rate: " \o Fmt2(x.v) \o "%, up"))
         ELSE   IF x = None THEN Raise(Add(st, 3)) ELSE
                AddFactor(st, 3, Factor("yellow", "Stable policy",
                                        "Rate: " \o Fmt2(x.v) \o "%"))

\* The score before normalisation: the six branches in source order.
RawScore(d) ==
    LET s1 == GdpBranch(Start, d)
        s2 == InflationBranch(s1, d)
        s3 == PmiBranch(s2, d)
        s4 == TradeBranch(s3, d)
        s5 == FxBranch(s4, d)
    IN  PolicyBranch(s5, d)

Min(a, b) == IF a < b THEN a ELSE b
Max(a, b) == IF a > b THEN a ELSE b

\* The normalisation without its upper cap.
Normalize_NoCap(s) == Max(0, s)

\* score = max(0, min(100, score))
Normalize(s) == Max(0, Min(100, s))

\* The rating ladder with `>` at 75.
Rating_Strict(s) ==
    IF s > 75 THEN "Excellent"
    ELSE IF s >= 60 THEN "Good"
    ELSE IF s >= 45 THEN "Fair"
    ELSE IF s >= 30 THEN "Poor"
    ELSE "Critical"

Rating(s) ==
    IF s >= 75 THEN "Excellent"
    ELSE IF s >= 60 THEN "Good"
    ELSE IF s >= 45 THEN "Fair"
    ELSE IF s >= 30 THEN "Poor"
    ELSE "Critical"

\* The returned tuple (score, rating, factors); raised: the call ended in an
\* exception instead.
calculate_economic_score(d) ==
    LET st == RawScore(d)
        s == Normalize(st.score)
    IN  [score |-> s, rating |-> Rating(s), factors |-> st.factors, raised |-> st.raised]

(* ------------------------------------------------------------------ *)
(* get_market_sentiment                                                *)
(* ------------------------------------------------------------------ *)
\* The classification with `>=` at 70.
get_market_sentiment_Inclusive(r) ==
    IF r = None \/ r.kind = "nan" THEN <<"Unknown", "neutral">>
    ELSE IF PyGe(r, 700) THEN <<"Overbought", "negative">>
    ELSE IF PyLt(r, 300) THEN <<"Oversold", "positive">>
    ELSE <<"Neutral", "neutral">>

get_market_sentiment(r) ==
    IF r = None \/ r.kind = "nan" THEN <<"Unknown", "neutral">>
    ELSE IF PyGt(r, 700) THEN <<"Overbought", "negative">>
    ELSE IF PyLt(r, 300) THEN <<"Oversold", "positive">>
    ELSE <<"Neutral", "neutral">>

\* Half-width, in tenths, of the RSI window sampled around 30 and around 70.
RsiSpread == 20

RsiInputs ==
    {None, NaN} \cup {Num(n) : n \in {-50, 0, 1500}}
        \cup {Num(n) : n \in (300 - RsiSpread)..(300 + RsiSpread)}
        \cup {Num(n) : n \in (700 - RsiSpread)..(700 + RsiSpread)}

(* ------------------------------------------------------------------ *)
(* calculate_rsi                                                       *)
(* ------------------------------------------------------------------ *)
\* A float of the RSI pipeline, kept exact: the rational num/den (den > 0),
\* NaN, or an infinity.
FNaN == [kind |-> "nan", num |-> 0, den |-> 1]
FInf == [kind |-> "inf", num |-> 0, den |-> 1]
FNum(n, d) == IF d < 0 THEN [kind |-> "num", num |-> 0 - n, den |-> 0 - d]
              ELSE [kind |-> "num", num |-> n, den |-> d]

RECURSIVE Pow(_, _)
Pow(b, e) == IF e = 0 THEN 1 ELSE b * Pow(b, e - 1)

\* delta = prices.diff(), at the k-th step (between samples k and k+1).
Delta(p, k) == p[k + 1] - p[k]

\* gain = delta.abs() in place of the clip.
Gain_Abs(p, k) == Abs(Delta(p, k))

\* gain = delta.clip(lower=0)
Gain(p, k) == Max(Delta(p, k), 0)

\* loss = delta.clip(upper=0), the sign not flipped.
Loss_NoNegate(p, k) == Min(Delta(p, k), 0)

\* loss = delta.clip(lower=0): the gains taken for the losses.
Loss_AsGain(p, k) == Max(Delta(p, k), 0)

\* loss = -delta.clip(upper=0)
Loss(p, k) == 0 - Min(Delta(p, k), 0)

\* x.ewm(alpha=1/P, adjust=False).mean() at step k, multiplied by P^(k-1) so
\* that it stays an integer: seeded with the first step's raw value, then
\* avg[k] = x[k]/P + (P-1)/P * avg[k-1].  Both averages carry the same
\* factor, so their ratio is the ratio of the smoothed averages.
RECURSIVE EwmGain(_, _, _)
EwmGain(p, P, k) ==
    IF k = 1 THEN Gain(p, 1)
    ELSE Pow(P, k - 2) * Gain(p, k) + (P - 1) * EwmGain(p, P, k - 1)

RECURSIVE EwmLoss(_, _, _)
EwmLoss(p, P, k) ==
    IF k = 1 THEN Loss(p, 1)
    ELSE Pow(P, k - 2) * Loss(p, k) + (P - 1) * EwmLoss(p, P, k - 1)

\* The average loss used as it is.
ReplaceZero_Kept(x) == FNum(x, 1)

\* avg_loss.replace(0, np.nan)
ReplaceZero(x) == IF x = 0 THEN FNaN ELSE FNum(x, 1)

\* rs = avg_gain / avg_loss: NaN propagates, 0/0 is NaN, x/0 is infinite.
Rs(ag, al) ==
    IF al.kind = "nan" THEN FNaN
    ELSE IF al.num = 0 THEN (IF ag = 0 THEN FNaN ELSE FInf)
    ELSE FNum(ag * al.den, al.num)

\* rsi = 100 - (100 / (1 + rs)) = 100 * rs.num / (rs.num + rs.den)
RsiOf(rs) ==
    IF rs.kind = "nan" THEN FNaN
    ELSE IF rs.kind = "inf" THEN FNum(100, 1)
    ELSE IF rs.num + rs.den = 0 THEN FInf
    ELSE FNum(100 * rs.num, rs.num + rs.den)

\* The returned series: index 1 has no delta and is NaN.
calculate_rsi(p, P) ==
    [j \in 1..Len(p) |->
        IF j = 1 THEN FNaN
        ELSE RsiOf(Rs(EwmGain(p, P, j - 1), ReplaceZero(EwmLoss(p, P, j - 1))))]

\* Longest price series and highest price sampled.
MaxLen == 5
MaxPrice == 3

\* The default period 14 and two short ones that a series of MaxLen outlasts.
Periods == {2, 3, 14}

PriceSeries == UNION {[1..n -> 1..MaxPrice] : n \in 0..MaxLen}

(* ------------------------------------------------------------------ *)
(* analyze_fed_vietnam_correlation                                     *)
(* ------------------------------------------------------------------ *)
\* `if x:` on a float or None: None and 0.0 are false, NaN is true.
Truthy(x) == x.kind = "nan" \/ (x.kind = "num" /\ x.v # 0)

\* The dictionary with the keys K[i] whose option o[i] is <<e>>, not <<>>.
MkDict(K, o) ==
    [k \in {K[i] : i \in {j \in 1..Len(K) : o[j] # <<>>}} |->
        o[CHOOSE i \in 1..Len(K) : K[i] = k][1]]

EmptyDict == MkDict(<<>>, <<>>)

\* An entry of us_data: us.py sets "value" and, with two samples or more,
\* "mom_change" (None here: the key is missing).
UsEntry(val, mom) == [value |-> val, mom_change |-> mom]

\* vn_market["indices"]["vnindex"]
IndexEntry(r) == [name |-> "VN-Index", rsi |-> r]

FedStart ==
    [fed_impact_score |-> 0, key_factors |-> <<>>, recommendations |-> <<>>,
     risk_level |-> "Medium", raised |-> FALSE]

FedAdd(a, delta, f) ==
    [a EXCEPT !.fed_impact_score = @ + delta, !.key_factors = Append(@, f)]

FedRaise(a) == [a EXCEPT !.raised = TRUE]

\* The Fed-funds level with a penalty of 40 for a rate above 5.
FedRateLevel_Heavy(a, us) ==
    IF a.raised \/ "fed_rate" \notin DOMAIN us THEN a
    ELSE LET x == us["fed_rate"].value IN
         IF x = None THEN FedRaise(a)
         ELSE IF PyGt(x, 50) THEN
                [FedAdd(a, -40, "High Fed rate (" \o Fmt2(x.v) \o "%) pressures emerging markets")
                    EXCEPT !.risk_level = "High"]
         ELSE IF PyLt(x, 20) THEN
                FedAdd(a, 20, "Low Fed rate (" \o Fmt2(x.v) \o "%) supports EM flows")
         ELSE a

\* The Fed-funds level: fed_rate > 5.0, fed_rate < 2.0.
FedRateLevel(a, us) ==
    IF a.raised \/ "fed_rate" \notin DOMAIN us THEN a
    ELSE LET x == us["fed_rate"].value IN
         IF x = None THEN FedRaise(a)
         ELSE IF PyGt(x, 50) THEN
                [FedAdd(a, -30, "High Fed rate (" \o Fmt2(x.v) \o "%) pressures emerging markets")
                    EXCEPT !.risk_level = "High"]
         ELSE IF PyLt(x, 20) THEN
                FedAdd(a, 20, "Low Fed rate (" \o Fmt2(x.v) \o "%) supports EM flows")
         ELSE a

\* The Fed-funds direction, read only inside the fed_rate block.
FedRateDirection(a, us) ==
    IF a.raised \/ "fed_rate" \notin DOMAIN us THEN a
    ELSE LET m == us["fed_rate"].mom_change IN
         IF ~Truthy(m) THEN a
         ELSE IF PyGt(m, 1) THEN FedAdd(a, -15, "Rising US rates create headwinds")
         ELSE IF PyLt(m, -1) THEN FedAdd(a, 15, "Falling US rates support EM")
         ELSE a

UsInflation(a, us) ==
    IF a.raised \/ "inflation" \notin DOMAIN us THEN a
    ELSE LET x == us["inflation"].value IN
         IF x = None THEN FedRaise(a)
         ELSE IF PyGt(x, 40) THEN
                FedAdd(a, -20, "High US inflation (" \o Fmt1(x.v) \o "%) may force Fed hawkishness")
         ELSE IF PyLt(x, 25) THEN
                FedAdd(a, 15, "Moderate US inflation (" \o Fmt1(x.v) \o "%) allows Fed flexibility")
         ELSE a

\* The dollar branch with the weak-USD bonus as large as the strong-USD penalty.
DollarStrength_Symmetric(a, gc) ==
    IF a.raised \/ "dxy" \notin DOMAIN gc THEN a
    ELSE LET c == gc["dxy"].change IN
         IF ~Truthy(c) THEN a
         ELSE IF PyGt(c, 20) THEN FedAdd(a, -25, "Strong USD creates EM outflows")
         ELSE IF PyLt(c, -20) THEN FedAdd(a, 25, "Weak USD supports EM inflows")
         ELSE a

DollarStrength(a, gc) ==
    IF a.raised \/ "dxy" \notin DOMAIN gc THEN a
    ELSE LET c == gc["dxy"].change IN
         IF ~Truthy(c) THEN a
         ELSE IF PyGt(c, 20) THEN FedAdd(a, -25, "Strong USD creates EM outflows")
         ELSE IF PyLt(c, -20) THEN FedAdd(a, 20, "Weak USD supports EM inflows")
         ELSE a

\* `if vni.get("rsi"):` then rsi < 35, rsi > 65.
VnTechnicals(a, vm) ==
    IF a.raised \/ "indices" \notin DOMAIN vm THEN a
    ELSE IF "vnindex" \notin DOMAIN vm["indices"] THEN a
    ELSE LET r == vm["indices"]["vnindex"].rsi IN
         IF ~Truthy(r) THEN a
         ELSE IF PyLt(r, 350) THEN FedAdd(a, 10, "VN-Index oversold, potential reversal")
         ELSE IF PyGt(r, 650) THEN
                FedAdd(a, -10, "VN-Index overbought, vulnerable to correction")
         ELSE a

FedRecommendations(a) ==
    IF a.raised THEN a
    ELSE IF a.fed_impact_score > 20 THEN
        [a EXCEPT !.recommendations = @ \o
                    <<"Favorable Fed environment for Vietnam exposure",
                      "Consider increasing Vietnam allocation",
                      "Focus on growth sectors (Tech, Consumer)">>,
                  !.risk_level = "Low"]
    ELSE IF a.fed_impact_score < -20 THEN
        [a EXCEPT !.recommendations = @ \o
                    <<"Challenging Fed environment for Vietnam",
                      "Reduce Vietnam exposure or hedge currency risk",
                      "Focus on defensive sectors (Utilities, Consumer Staples)">>,
                  !.risk_level = "High"]
    ELSE
        [a EXCEPT !.recommendations = @ \o
                    <<"Mixed Fed signals - cautious approach",
                      "Monitor Fed communications closely",
                      "Maintain balanced sector allocation">>]

analyze_fed_vietnam_correlation(us, vm, gc) ==
    LET a1 == FedRateLevel(FedStart, us)
        a2 == FedRateDirection(a1, us)
        a3 == UsInflation(a2, us)
        a4 == DollarStrength(a3, gc)
        a5 == VnTechnicals(a4, vm)
    IN  FedRecommendations(a5)

\* Input grid of the Fed analysis, in tenths.
FedRateValues == {20 - Spread, 20, 50, 50 + Spread}
MomChanges == {-1 - Spread, -1, 0, 1, 1 + Spread}
UsInflationValues == {25 - Spread, 25, 40, 40 + Spread}
DxyChanges == {-20 - Spread, -20, 0, 20, 20 + Spread}
VnRsiValues == {0, 350 - Spread, 350, 650, 650 + Spread, 1000}

NumOrNone(S) == {Num(n) : n \in S} \cup {None}

Some(S) == {<<>>} \cup {<<e>> : e \in S}

FedUsData ==
    {MkDict(<<"fed_rate", "inflation">>, o) :
        o \in Some({UsEntry(x, m) : x \in NumOrNone(FedRateValues), m \in NumOrNone(MomChanges)})
              \X Some({UsEntry(x, None) : x \in NumOrNone(UsInflationValues)})}

FedGlobalContext ==
    {MkDict(<<"dxy">>, o) : o \in Some({[change |-> c] : c \in NumOrNone(DxyChanges)}) \X {<<>>}}

FedVnMarket ==
    {EmptyDict, MkDict(<<"indices">>, <<<<EmptyDict>>>>)}
        \cup {MkDict(<<"indices">>, <<<<MkDict(<<"vnindex">>, <<<<IndexEntry(r)>>>>)>>>>) :
                r \in NumOrNone(VnRsiValues)}

(* ------------------------------------------------------------------ *)
(* analyze_vietnam_macro_market_correlation                            *)
(* ------------------------------------------------------------------ *)
\* sector_rotation is a dict; its insertion order is kept as a sequence of
\* <<category, sectors>> pairs (each category is written by one branch only).
\* The macro analysis started from 0 instead of the neutral 50.
MacroStart_Zero ==
    [macro_score |-> 0, economic_drivers |-> <<>>, market_implications |-> <<>>,
     sector_rotation |-> <<>>]

MacroStart ==
    [macro_score |-> 50, economic_drivers |-> <<>>, market_implications |-> <<>>,
     sector_rotation |-> <<>>]

MacroAdd(a, delta, f) ==
    [a EXCEPT !.macro_score = @ + delta, !.economic_drivers = Append(@, f)]

Rotate(a, category, sectors) ==
    [a EXCEPT !.sector_rotation = Append(@, <<category, sectors>>)]

\* d[k].get("value") when the key is there and the value is truthy.
HasTruthy(d, k) == k \in DOMAIN d /\ Truthy(d[k].value)

MacroGdp(a, d) ==
    IF ~HasTruthy(d, "gdp_growth_yoy") THEN a
    ELSE LET x == d["gdp_growth_yoy"].value IN
         IF PyGt(x, 65) THEN
            Rotate(MacroAdd(a, 15, Factor("green", "Strong GDP growth", Fmt1(x.v) \o "%")),
                   "growth_favored", <<"Technology", "Real Estate", "Manufacturing">>)
         ELSE IF PyLt(x, 50) THEN
            Rotate(MacroAdd(a, -10, Factor("red", "Slow GDP growth", Fmt1(x.v) \o "%")),
                   "defensive_favored", <<"Banking", "Utilities">>)
         ELSE a

\* The inflation branch with the healthy band worth the 12 points that
\* calculate_economic_score gives it.
MacroInflation_Twelve(a, d) ==
    IF ~HasTruthy(d, "inflation_rate") THEN a
    ELSE LET x == d["inflation_rate"].value IN
         IF PyGe(x, 20) /\ PyLe(x, 40) THEN
            MacroAdd(a, 12, Factor("green", "Healthy inflation", Fmt1(x.v) \o "%"))
         ELSE IF PyGt(x, 50) THEN
            Rotate(MacroAdd(a, -15, Factor("red", "High inflation", Fmt1(x.v) \o "%")),
                   "inflation_hedge", <<"Real Estate", "Energy", "Manufacturing">>)
         ELSE a

MacroInflation(a, d) ==
    IF ~HasTruthy(d, "inflation_rate") THEN a
    ELSE LET x == d["inflation_rate"].value IN
         IF PyGe(x, 20) /\ PyLe(x, 40) THEN
            MacroAdd(a, 10, Factor("green", "Healthy inflation", Fmt1(x.v) \o "%"))
         ELSE IF PyGt(x, 50) THEN
            Rotate(MacroAdd(a, -15, Factor("red", "High inflation", Fmt1(x.v) \o "%")),
                   "inflation_hedge", <<"Real Estate", "Energy", "Manufacturing">>)
         ELSE a

MacroPmi(a, d) ==
    IF ~HasTruthy(d, "manufacturing_pmi") THEN a
    ELSE LET x == d["manufacturing_pmi"].value IN
         IF PyGt(x, 520) THEN
            Rotate(MacroAdd(a, 12, Factor("green", "Expanding manufacturing", "PMI: " \o Fmt1(x.v))),
                   "manufacturing_cycle", <<"Manufacturing", "Technology", "Energy">>)
         ELSE IF PyLt(x, 500) THEN
            MacroAdd(a, -12, Factor("red", "Contracting manufacturing", "PMI: " \o Fmt1(x.v)))
         ELSE a

MacroTrade(a, d) ==
    IF ~HasTruthy(d, "balance_of_trade") THEN a
    ELSE LET x == d["balance_of_trade"].value IN
         IF PyGt(x, 20) THEN
            Rotate(MacroAdd(a, 8, Factor("green", "Strong trade surplus", "$" \o Fmt1(x.v) \o "B")),
                   "export_beneficiary", <<"Manufacturing", "Technology">>)
         ELSE IF PyLt(x, -10) THEN
            MacroAdd(a, -8, Factor("red", "Trade deficit", "$" \o Fmt1(x.v) \o "B"))
         ELSE a

\* `if policy_rate and policy_change:`; the change is counted in hundredths.
MacroPolicy(a, d) ==
    IF "policy_rate" \notin DOMAIN d THEN a
    ELSE LET r == d["policy_rate"].value
             c == d["policy_rate"].change IN
         IF ~(Truthy(r) /\ Truthy(c)) THEN a
         ELSE IF PyLt(c, -25) THEN
            Rotate(MacroAdd(a, 10, Factor("green", "Accommodative policy",
                                          "Rate: " \o Fmt2(r.v) \o "% down")),
                   "rate_sensitive", <<"Real Estate", "Banking", "Technology">>)
         ELSE IF PyGt(c, 25) THEN
            MacroAdd(a, -8, Factor("red", "Tightening policy", "Rate: " \o Fmt2(r.v) \o "% up"))
         ELSE a

MarketImplications(a) ==
    IF a.macro_score > 70 THEN
        [a EXCEPT !.market_implications = @ \o
            <<"Strong macro environment supports risk-on approach",
              "Favor cyclical and growth sectors",
              "Consider increasing Vietnam allocation">>]
    ELSE IF a.macro_score < 40 THEN
        [a EXCEPT !.market_implications = @ \o
            <<"Weak macro environment suggests caution",
              "Favor defensive sectors and quality names",
              "Consider currency hedging">>]
    ELSE
        [a EXCEPT !.market_implications = @ \o
            <<"Mixed macro signals require selective approach",
              "Focus on bottom-up stock selection",
              "Maintain sector diversification">>]

analyze_vietnam_macro_market_correlation(econ, vm) ==
    LET a1 == MacroGdp(MacroStart, econ)
        a2 == MacroInflation(a1, econ)
        a3 == MacroPmi(a2, econ)
        a4 == MacroTrade(a3, econ)
        a5 == MacroPolicy(a4, econ)
    IN  MarketImplications(a5)

(* ------------------------------------------------------------------ *)
(* generate_comprehensive_investment_recommendation                    *)
(* ------------------------------------------------------------------ *)
\* (fed + 50 + macro) // 2 in place of the true division.
OverallScore_FloorDiv(fed, macro) == ((fed + 50 + macro) \div 2) * 100

\* overall_score = (fed + 50 + macro) / 2, counted in hundredths.
OverallScore(fed, macro) == ((fed + 50 + macro) * 100) \div 2

\* round(x, 1): hundredths to tenths, a tie going to the even tenth (the
\* scores are multiples of 0.5, which floats hold exactly).
Round1(h) ==
    LET q == h \div 10
        r == h % 10
    IN  IF r > 5 \/ (r = 5 /\ q % 2 = 1) THEN q + 1 ELSE q

\* risk_level.lower()
Lower(w) ==
    CASE w = "High" -> "high"
      [] w = "Medium" -> "medium"
      [] w = "Low" -> "low"

RECURSIVE Join(_)
\* ', '.join(sectors)
Join(q) ==
    IF q = <<>> THEN ""
    ELSE IF Len(q) = 1 THEN q[1]
    ELSE q[1] \o ", " \o Join(Tail(q))

\* d.get(k) of a dictionary of floats.
Get(d, k) == IF k \in DOMAIN d THEN d[k] ELSE None

MarketTiming(overall) ==
    IF overall > 6500 THEN "Favorable"
    ELSE IF overall < 4000 THEN "Unfavorable"
    ELSE "Neutral"

TimingRecs(overall) ==
    IF overall > 6500 THEN <<"Market conditions favor Vietnam exposure">>
    ELSE IF overall < 4000 THEN <<"Exercise caution with Vietnam exposure">>
    ELSE <<>>

\* The reading of the "vnindex" entry when it is truthy, else None.
TechnicalRsi(vm) ==
    IF "indices" \in DOMAIN vm /\ "vnindex" \in DOMAIN vm["indices"]
        /\ Truthy(vm["indices"]["vnindex"].rsi)
      THEN vm["indices"]["vnindex"].rsi ELSE None

TechnicalOpportunities(vm) ==
    LET r == TechnicalRsi(vm) IN
    IF PyLt(r, 300) THEN
        <<vm["indices"]["vnindex"].name \o " oversold (RSI: " \o Fmt1(r.v)
            \o ") - potential entry point">>
    ELSE <<>>

TechnicalRisks(vm) ==
    LET r == TechnicalRsi(vm) IN
    IF ~PyLt(r, 300) /\ PyGt(r, 700) THEN
        <<vm["indices"]["vnindex"].name \o " overbought (RSI: " \o Fmt1(r.v)
            \o ") - potential correction ahead">>
    ELSE <<>>

RECURSIVE SectorRecs(_)
SectorRecs(rot) ==
    IF rot = <<>> THEN <<>>
    ELSE LET category == rot[1][1]
             sectors == rot[1][2]
             rec == IF category = "growth_favored"
                      THEN <<"Growth environment favors: " \o Join(sectors)>>
                    ELSE IF category = "defensive_favored"
                      THEN <<"Defensive positioning: " \o Join(sectors)>>
                    ELSE IF category = "inflation_hedge"
                      THEN <<"Inflation hedge plays: " \o Join(sectors)>>
                    ELSE <<>>
         IN  rec \o SectorRecs(Tail(rot))

\* The advance/decline ratio of a non-empty vn30_analysis, when truthy.
BreadthRatio(vm) ==
    IF "vn30_analysis" \in DOMAIN vm /\ DOMAIN vm["vn30_analysis"] # {}
        /\ Truthy(Get(vm["vn30_analysis"], "advance_decline_ratio"))
      THEN vm["vn30_analysis"]["advance_decline_ratio"] ELSE None

BreadthOpportunities(vm) ==
    IF PyGt(BreadthRatio(vm), 20)
      THEN <<"VN30 shows strong breadth - broad-based rally">> ELSE <<>>

BreadthRisks(vm) ==
    IF ~PyGt(BreadthRatio(vm), 20) /\ PyLt(BreadthRatio(vm), 5)
      THEN <<"VN30 shows weak breadth - selective selling">> ELSE <<>>

AllocationRecs(tol, overall) ==
    IF tol = "Conservative" THEN
        IF overall > 6000
          THEN <<"Consider 10-15% Vietnam allocation via dividend-focused stocks",
                 "Favor Banking and Utilities sectors">>
          ELSE <<"Limit Vietnam to 5-8% allocation",
                 "Focus on large-cap, established names only">>
    ELSE IF tol = "Moderate" THEN
        IF overall > 5500
          THEN <<"Consider 15-25% Vietnam allocation",
                 "Balanced sector approach with growth tilt">>
          ELSE <<"Maintain 10-15% Vietnam allocation",
                 "Focus on quality names and avoid speculative plays">>
    ELSE
        IF overall > 5000
          THEN <<"Consider 25-35% Vietnam allocation",
                 "Favor growth sectors and small-mid caps">>
          ELSE <<"Consider 15-20% Vietnam allocation",
                 "Balance growth plays with some defensive positions">>

CurrencyRecs(gc) ==
    IF "usd_vnd" \notin DOMAIN gc THEN <<>>
    ELSE LET c == gc["usd_vnd"].change IN
         IF ~Truthy(c) THEN <<>>
         ELSE IF c.kind = "num" /\ Abs(c.v) > 30
            THEN <<"Consider currency hedging for large positions">>
         ELSE IF PyLt(c, -20)
            THEN <<"VND strength provides tailwind for USD investors">>
         ELSE <<>>

\* The final assessment with `and` where the source has `or`.
RiskLevel_BothHigh(fedRisk, macro) ==
    IF fedRisk = "High" /\ macro < 40 THEN "High"
    ELSE IF fedRisk = "Low" /\ macro > 70 THEN "Low"
    ELSE "Medium"

RiskLevel(fedRisk, macro) ==
    IF fedRisk = "High" \/ macro < 40 THEN "High"
    ELSE IF fedRisk = "Low" /\ macro > 70 THEN "Low"
    ELSE "Medium"

\* The whole function; fed_data is a parameter the body never reads.  A
\* TypeError of the Fed analysis leaves the function at line 215.
generate_comprehensive_investment_recommendation(us, econ, vm, gc, tol) ==
    LET fed == analyze_fed_vietnam_correlation(us, vm, gc)
        macro == analyze_vietnam_macro_market_correlation(econ, vm)
        overall == OverallScore(fed.fed_impact_score, macro.macro_score)
        timing == MarketTiming(overall)
        risk == RiskLevel(fed.risk_level, macro.macro_score)
    IN  IF fed.raised THEN [raised |-> TRUE]
        ELSE [raised |-> FALSE,
              overall_score |-> Round1(overall),
              market_timing |-> timing,
              risk_level |-> risk,
              key_recommendations |->
                  TimingRecs(overall) \o SectorRecs(macro.sector_rotation)
                      \o AllocationRecs(tol, overall),
              opportunities |-> TechnicalOpportunities(vm) \o BreadthOpportunities(vm),
              risk_factors |-> TechnicalRisks(vm) \o BreadthRisks(vm),
              currency_considerations |-> CurrencyRecs(gc),
              fed_analysis |-> fed,
              macro_analysis |-> macro,
              summary |-> "Overall market score: " \o Fmt1(Round1(overall)) \o "/100. "
                            \o timing \o " timing with " \o Lower(risk) \o " risk level."]

\* Input grid of the recommendation, in tenths: macro snapshots on and past
\* each threshold of the macro analysis.
MacroGdpValues == {0, 50 - Spread, 50, 65, 65 + Spread}
MacroInflationValues == {20 - Spread, 20, 40, 40 + Spread, 50, 50 + Spread}
MacroPmiValues == {500 - Spread, 500, 520, 520 + Spread}
MacroTradeValues == {-10 - Spread, -10, 20, 20 + Spread}

MacroKeys ==
    <<"gdp_growth_yoy", "inflation_rate", "manufacturing_pmi", "balance_of_trade",
      "policy_rate">>

\* One option per key of MacroKeys: absent, or an entry.
MacroOptions ==
    Some(ValueEntries(MacroGdpValues))
        \X Some(ValueEntries(MacroInflationValues))
        \X Some({Entry(Num(n), None) : n \in MacroPmiValues})
        \X Some({Entry(Num(n), None) : n \in MacroTradeValues})
        \X Some(PolicyEntries)

\* A few snapshots: empty, healthy inflation (60), strong on every count but
\* trade and policy (71), weak (28), and one with foreign reserves.
FewSnapshots ==
    {EmptyDict,
     MkDict(<<"inflation_rate">>, <<<<Entry(Num(40), None)>>>>),
     MkDict(<<"gdp_growth_yoy", "inflation_rate", "manufacturing_pmi",
              "balance_of_trade", "policy_rate">>,
            <<<<Entry(Num(65 + Spread), None)>>, <<Entry(Num(20), None)>>,
              <<Entry(Num(520 + Spread), None)>>, <<Entry(Num(-10 - Spread), None)>>,
              <<Entry(Num(450), Num(25 + Spread))>>>>),
     MkDict(<<"gdp_growth_yoy", "manufacturing_pmi">>,
            <<<<Entry(Num(50 - Spread), None)>>, <<Entry(Num(500 - Spread), None)>>>>),
     MkDict(<<"gdp_growth_yoy", "fx_reserves">>,
            <<<<Entry(Num(65 + Spread), None)>>, <<Entry(Num(1000 + Spread), None)>>>>)}

\* us_data with a neutral, an easy, a tight and a hiking Fed, and one entry
\* without a value.
FewUsData ==
    {EmptyDict,
     MkDict(<<"fed_rate">>, <<<<UsEntry(Num(20 - Spread), None)>>>>),
     MkDict(<<"fed_rate", "inflation">>,
            <<<<UsEntry(Num(20 - Spread), None)>>, <<UsEntry(Num(25 - Spread), None)>>>>),
     MkDict(<<"fed_rate">>, <<<<UsEntry(Num(50 + Spread), None)>>>>)}

RecoUsData ==
    FewUsData \cup
    {MkDict(<<"fed_rate", "inflation">>, o) :
        o \in {<<UsEntry(Num(50 + Spread), Num(1 + Spread))>>,
               <<UsEntry(Num(20 - Spread), Num(-1 - Spread))>>,
               <<UsEntry(Num(30), Num(1))>>, <<UsEntry(None, None)>>}
              \X Some({UsEntry(Num(x), None) : x \in {25 - Spread, 40 + Spread}})}

RsiReadings == {0, 300 - Spread, 300, 350 - Spread, 650 + Spread, 700, 700 + Spread}
BreadthRatios == {0, 3, 5, 20, 20 + Spread}
UsdVndChanges == {-30 - Spread, -30, -20 - Spread, -20, 0, 30, 30 + Spread}

\* vn_market with an optional "vnindex" reading and an optional vn30_analysis.
MkVnMarket(r, b) ==
    MkDict(<<"indices", "vn30_analysis">>,
           <<IF r = <<>> THEN <<>> ELSE <<MkDict(<<"vnindex">>, <<<<IndexEntry(r[1])>>>>)>>, b>>)

Vn30Analyses ==
    {EmptyDict} \cup
    {MkDict(<<"advance_decline_ratio">>, <<<<x>>>>) : x \in NumOrNone(BreadthRatios)}

\* global_context with optional "dxy" and "usd_vnd" changes.
MkGlobalContext(dx, uv) ==
    MkDict(<<"dxy", "usd_vnd">>,
           <<IF dx = <<>> THEN <<>> ELSE <<[change |-> dx[1]]>>,
             IF uv = <<>> THEN <<>> ELSE <<[change |-> uv[1]]>>>>)

RiskTolerances == {"Conservative", "Moderate", "Aggressive"}

(* ------------------------------------------------------------------ *)
(* _calculate_technical_indicators (vn.py and vn_enhanced.py)          *)
(* ------------------------------------------------------------------ *)
\* Closes are whole prices; computed levels are fixed-point numbers in
\* hundredths, the RSI in tenths, the smoothed averages in thousandths.
\* df["close"].dropna(): the valid closes, as integers.
DropNa(col) ==
    LET kept == SelectSeq(col, LAMBDA e : e.kind = "num")
    IN  [i \in 1..Len(kept) |-> kept[i].v]

\* df.empty or 'close' not in df
NoCloses(frame) == "close" \notin DOMAIN frame \/ Len(frame["close"]) = 0

\* The last w entries: the window of close.rolling(w)...iloc[-1].
Window(c, w) == SubSeq(c, Len(c) - w + 1, Len(c))

\* Sums and extremes of a window, taken by halves.
Front(q) == SubSeq(q, 1, Len(q) \div 2)
Back(q) == SubSeq(q, Len(q) \div 2 + 1, Len(q))

RECURSIVE SumSeq(_)
SumSeq(q) ==
    IF q = <<>> THEN 0
    ELSE IF Len(q) = 1 THEN q[1]
    ELSE SumSeq(Front(q)) + SumSeq(Back(q))

RECURSIVE SumSquares(_)
SumSquares(q) ==
    IF q = <<>> THEN 0
    ELSE IF Len(q) = 1 THEN q[1] * q[1]
    ELSE SumSquares(Front(q)) + SumSquares(Back(q))

RECURSIVE MaxSeq(_)
MaxSeq(q) == IF Len(q) = 1 THEN q[1] ELSE Max(MaxSeq(Front(q)), MaxSeq(Back(q)))

RECURSIVE MinSeq(_)
MinSeq(q) == IF Len(q) = 1 THEN q[1] ELSE Min(MinSeq(Front(q)), MinSeq(Back(q)))

\* The integer square root.
Isqrt(x) == CHOOSE r \in 0..x : r * r <= x /\ x < (r + 1) * (r + 1)

\* .mean() of a window, in hundredths of the unit of q scaled by `scale`.
MeanOf(q, scale) == (SumSeq(q) * scale) \div Len(q)

\* .std() of a window (sample standard deviation, ddof = 1): the square root
\* of (k*sum(x^2) - sum(x)^2) / (k*(k-1)), scaled by the root of `scale2`.
StdOf(q, scale2) ==
    LET k == Len(q)
        v == k * SumSquares(q) - SumSeq(q) * SumSeq(q)
    IN  Isqrt((v * scale2) \div (k * (k - 1)))

\* The k-th gain or loss, in thousandths.
Move(c, k, side) == 1000 * (IF side = "gain" THEN Gain(c, k) ELSE Loss(c, k))

\* The smoothing steps from..to applied to the average avg, rounded to the
\* nearest thousandth: avg[k] = (13*avg[k-1] + x[k]) / 14.
RECURSIVE Advance(_, _, _, _, _)
Advance(c, avg, from, to, side) ==
    IF from > to THEN avg
    ELSE LET nxt == (13 * avg + Move(c, from, side) + 7) \div 14
         IN  IF nxt >= 0 THEN Advance(c, nxt, from + 1, to, side) ELSE nxt

\* The smoothed average of calculate_rsi at index k, avg[1] = x[1], taken
\* in blocks of 25 steps.
RECURSIVE Smoothed(_, _, _)
Smoothed(c, k, side) ==
    IF k <= 25 THEN Advance(c, Move(c, 1, side), 2, k, side)
    ELSE LET prev == Smoothed(c, k - 25, side)
         IN  IF prev >= 0 THEN Advance(c, prev, k - 24, k, side) ELSE prev

\* float(rsi.iloc[-1]) in tenths; NaN while the average loss is 0.
LastRsi(c) ==
    LET ag == Smoothed(c, Len(c) - 1, "gain")
        al == Smoothed(c, Len(c) - 1, "loss")
    IN  IF Len(c) < 2 \/ al = 0 THEN NaN
        ELSE Num((1000 * ag + (ag + al) \div 2) \div (ag + al))

\* len(rsi.dropna()) > 0: some entry has a value, which is once a price fell.
AnyRsi(c) == \E k \in 1..(Len(c) - 1) : Loss(c, k) > 0

\* The three RSI keys.
RsiKeys(c) ==
    IF AnyRsi(c)
      THEN <<<<LastRsi(c)>>, <<get_market_sentiment(LastRsi(c))[1]>>,
             <<get_market_sentiment(LastRsi(c))[2]>>>>
      ELSE <<<<>>, <<>>, <<>>>>

\* close.rolling(w).mean().iloc[-1] once there are w closes.
Sma(c, w) == IF Len(c) >= w THEN <<Num(MeanOf(Window(c, w), 100))>> ELSE <<>>

BbUpper(c) == MeanOf(Window(c, 20), 100) + 2 * StdOf(Window(c, 20), 10000)
BbLower(c) == MeanOf(Window(c, 20), 100) - 2 * StdOf(Window(c, 20), 10000)

\* (close.iloc[-1] - bb_lower) / bb_range, in hundredths.
BbPosition(c) ==
    Num(((c[Len(c)] * 100 - BbLower(c)) * 100) \div (BbUpper(c) - BbLower(c)))

\* returns = close.pct_change().dropna(), in percent.
Returns(c) == [k \in 1..(Len(c) - 1) |-> (Delta(c, k) * 100) \div c[k]]

\* returns.rolling(20).std().iloc[-1] * sqrt(252) * 100, in percent.
Volatility(c) ==
    IF Len(c) >= 20 /\ Len(Returns(c)) >= 20
      THEN <<Num((StdOf(Window(Returns(c), 20), 100) * 1587) \div 1000)>>
      ELSE <<>>

IndicatorKeys ==
    <<"rsi", "rsi_signal", "rsi_sentiment", "sma_20", "sma_50", "sma_200",
      "bb_upper", "bb_lower", "bb_position", "resistance", "support", "volatility_20d">>

\* vn.py with the 50-day average emitted from 20 closes on.
MovingAverage50_Early(c) == Sma(c, 20)

\* vn.py: the 50-day average.
MovingAverage50(c) == Sma(c, 50)

\* vn.py: bb_position only `if bb_range > 0`.
BandPosition(c) ==
    IF Len(c) >= 20 /\ BbUpper(c) - BbLower(c) > 0 THEN <<BbPosition(c)>> ELSE <<>>

\* vn.py:178-264.  Every block sits in its own try/except and the whole body
\* in another, so the function returns on every input.
calculate_technical_indicators(frame) ==
    IF NoCloses(frame) THEN EmptyDict
    ELSE LET c == DropNa(frame["close"])
             n == Len(c)
             r == IF n >= 14 THEN RsiKeys(c) ELSE <<<<>>, <<>>, <<>>>>
             band == n >= 20
         IN  IF n < 5 THEN EmptyDict
             ELSE MkDict(IndicatorKeys,
                    <<r[1], r[2], r[3], Sma(c, 20), MovingAverage50(c), Sma(c, 200),
                      IF band THEN <<Num(BbUpper(c))>> ELSE <<>>,
                      IF band THEN <<Num(BbLower(c))>> ELSE <<>>,
                      BandPosition(c),
                      IF band THEN <<Num(MaxSeq(Window(c, 20)) * 100)>> ELSE <<>>,
                      IF band THEN <<Num(MinSeq(Window(c, 20)) * 100)>> ELSE <<>>,
                      Volatility(c)>>)

\* vn_enhanced.py:94-141.  Nothing is computed under 20 closes; bb_position
\* is divided out unguarded: with a band of width zero the last close sits on
\* the band, the quotient is 0.0 / 0.0 of numpy floats, NaN without an
\* exception.
calculate_technical_indicators_enhanced(frame) ==
    IF NoCloses(frame) THEN EmptyDict
    ELSE LET c == DropNa(frame["close"])
             n == Len(c)
             r == RsiKeys(c)
         IN  IF n < 20 THEN EmptyDict
             ELSE MkDict(IndicatorKeys,
                    <<r[1], r[2], r[3], Sma(c, 20), Sma(c, 50), Sma(c, 200),
                      <<Num(BbUpper(c))>>, <<Num(BbLower(c))>>,
                      IF BbUpper(c) - BbLower(c) = 0 THEN <<NaN>> ELSE <<BbPosition(c)>>,
                      <<Num(MaxSeq(Window(c, 20)) * 100)>>,
                      <<Num(MinSeq(Window(c, 20)) * 100)>>,
                      Volatility(c)>>)

\* Input grid: series of n samples around every minimum, in a few shapes.
SampleCounts == {1, 4, 5, 13, 14, 19, 20, 21, 22, 49, 50, 51, 199, 200}
Shapes == {"flat", "zigzag", "drop", "jump", "stairs", "gappy"}

\* The i-th sample of a shape with n samples.
Sample(shape, i, n) ==
    CASE shape = "flat" -> Num(3)
      [] shape = "zigzag" -> Num(2 + 2 * (i % 2))
      [] shape = "drop" -> Num(IF i = n THEN 1 ELSE 5)
      [] shape = "jump" -> Num(IF i = n THEN 5 ELSE 1)
      [] shape = "stairs" -> Num(1 + (4 * i) \div n)
      [] shape = "gappy" -> IF i % 7 = 0 THEN NaN ELSE Num(2 + 2 * (i % 2))

Frames ==
    {EmptyDict, [close |-> <<>>], [volume |-> <<Num(1)>>]}
        \cup {[close |-> [i \in 1..n |-> Sample(sh, i, n)]] : n \in SampleCounts, sh \in Shapes}

(* ------------------------------------------------------------------ *)
(* EconomicAnalyzer.calculate_sector_rotation_signals                  *)
(* ------------------------------------------------------------------ *)
\* sector_data is a dict in insertion order: a sequence of
\* [sector, data] with distinct sectors; returns are counted in tenths.
\* data.get(k, 0)
GetOrZero(d, k) == IF k \in DOMAIN d THEN d[k] ELSE 0

\* perf_1d * 0.2 + perf_1w * 0.3 + perf_1m * 0.5, in hundredths.
WeightedScore(d) ==
    2 * GetOrZero(d, "avg_return_1d") + 3 * GetOrZero(d, "avg_return_1w")
        + 5 * GetOrZero(d, "avg_return_1m")

\* sector_performance.items()
SectorPerformance(sd) == [i \in 1..Len(sd) |-> <<sd[i].sector, WeightedScore(sd[i].data)>>]

RECURSIVE InsertAscending(_, _)
\* The place of x in an ascending ranking.
InsertAscending(q, x) ==
    IF q = <<>> THEN <<x>>
    ELSE IF q[1][2] <= x[2] THEN <<q[1]>> \o InsertAscending(Tail(q), x)
    ELSE <<x>> \o q

RECURSIVE InsertDescending(_, _)
\* The place of x behind every item that scores at least as much (the sort
\* is stable, reverse=True included).
InsertDescending(q, x) ==
    IF q = <<>> THEN <<x>>
    ELSE IF q[1][2] >= x[2] THEN <<q[1]>> \o InsertDescending(Tail(q), x)
    ELSE <<x>> \o q

RECURSIVE SortAscending(_)
\* sorted(items, key=score) without reverse=True.
SortAscending(q) ==
    IF q = <<>> THEN <<>>
    ELSE InsertAscending(SortAscending(SubSeq(q, 1, Len(q) - 1)), q[Len(q)])

RECURSIVE SortDescending(_)
\* sorted(items, key=score, reverse=True)
SortDescending(q) ==
    IF q = <<>> THEN <<>>
    ELSE InsertDescending(SortDescending(SubSeq(q, 1, Len(q) - 1)), q[Len(q)])

\* The ranking without reverse=True.
SortedSectors_NoReverse(q) == SortAscending(q)

\* sorted_sectors
SortedSectors(q) == SortDescending(q)

\* [s[0] for s in q]
NamesOf(q) == [i \in 1..Len(q) |-> q[i][1]]

\* top_perf - bottom_perf
PerformanceSpread(sorted) == sorted[1][2] - sorted[Len(sorted)][2]

generate_rotation_recommendation(sorted) ==
    IF sorted = <<>> THEN "Insufficient data for recommendation"
    ELSE IF PerformanceSpread(sorted) > 500
        THEN "Strong rotation into " \o sorted[1][1] \o " - consider overweight"
    ELSE IF PerformanceSpread(sorted) > 200
        THEN "Moderate rotation favoring " \o sorted[1][1]
    ELSE IF PerformanceSpread(sorted) < -200
        THEN "Defensive positioning recommended - broad-based weakness"
    ELSE "Balanced allocation - no clear rotation pattern"

\* The returned dict as a record; an empty sector_data returns {}.
calculate_sector_rotation_signals(sd) ==
    IF sd = <<>> THEN EmptyDict
    ELSE LET perf == SectorPerformance(sd)
             sorted == SortedSectors(perf)
             n == Len(sorted)
         IN  [leading_sectors |-> NamesOf(SubSeq(sorted, 1, Min(2, n))),
              lagging_sectors |-> NamesOf(SubSeq(sorted, Max(1, n - 1), n)),
              rotation_strength |-> Abs(sorted[1][2] - sorted[n][2]),
              market_breadth |->
                  FNum(Cardinality({i \in 1..Len(perf) : perf[i][2] > 0}), Len(perf)),
              recommendation |-> generate_rotation_recommendation(sorted)]

\* Input grid: up to MaxSectors sectors, each return absent or on the grid.
MaxSectors == 3
SectorNames == <<"Banking", "Real Estate", "Technology", "Energy">>
SectorReturns ==
    {MkDict(<<"avg_return_1d", "avg_return_1w", "avg_return_1m">>, o) :
        o \in Some({-20}) \X Some({10}) \X Some({-40, 40, 100})}

(* ------------------------------------------------------------------ *)
(* Specifications                                                      *)
(* ------------------------------------------------------------------ *)
ScoreIdle ==
    /\ pc = "idle" /\ score = 0 /\ rating = "" /\ factors = <<>>

SentimentIdle ==
    /\ spc = "idle" /\ sentiment = <<>>

RsiIdle ==
    /\ rpc = "idle" /\ prices = <<>> /\ period = 14 /\ rsi = <<>>

InvestIdle ==
    /\ ipc = "idle"
    /\ us_data = <<>> /\ vn_market = <<>> /\ global_context = <<>>
    /\ vn_economic = <<>> /\ risk_tolerance = ""
    /\ fed_analysis = <<>> /\ bundle = <<>>

TechIdle ==
    /\ tpc = "idle" /\ df = <<>> /\ variant = "" /\ indicators = <<>>

RotationIdle ==
    /\ apc = "idle" /\ sector_data = <<>> /\ rotation_signals = <<>>

\* The economic score of one snapshot.
Init ==
    /\ \E o \in Opt(1) \X Opt(2) \X Opt(3) \X Opt(4) \X Opt(5) \X Opt(6) :
          vn_data = MkSnapshot(o)
    /\ pc = "input" /\ score = 0 /\ rating = "" /\ factors = <<>>
    /\ rsi_value = None /\ SentimentIdle
    /\ TechIdle /\ RotationIdle
    /\ RsiIdle /\ InvestIdle

CalculateEconomicScore ==
    /\ pc = "input"
    /\ LET r == calculate_economic_score(vn_data) IN
         IF r.raised
           THEN /\ pc' = "raised"
                /\ UNCHANGED <<score, rating, factors>>
           ELSE /\ pc' = "returned"
                /\ score' = r.score
                /\ rating' = r.rating
                /\ factors' = r.factors
    /\ UNCHANGED <<vn_data, sentimentVars, rsiVars, investVars, techVars, rotationVars>>

Next == CalculateEconomicScore

Spec == Init /\ [][Next]_vars

\* The sentiment of one RSI reading.
InitSentiment ==
    /\ rsi_value \in RsiInputs
    /\ spc = "input" /\ sentiment = <<>>
    /\ vn_data = <<>> /\ ScoreIdle
    /\ RsiIdle /\ InvestIdle
    /\ TechIdle /\ RotationIdle

GetMarketSentiment ==
    /\ spc = "input"
    /\ sentiment' = get_market_sentiment(rsi_value)
    /\ spc' = "returned"
    /\ UNCHANGED <<rsi_value, scoreVars, rsiVars, investVars, techVars, rotationVars>>

NextSentiment == GetMarketSentiment

SpecSentiment == InitSentiment /\ [][NextSentiment]_vars

\* The RSI of one price series.
InitRsi ==
    /\ prices \in PriceSeries
    /\ period \in Periods
    /\ rpc = "input" /\ rsi = <<>>
    /\ vn_data = <<>> /\ ScoreIdle
    /\ rsi_value = None /\ SentimentIdle
    /\ TechIdle /\ RotationIdle
    /\ InvestIdle

CalculateRsi ==
    /\ rpc = "input"
    /\ rsi' = calculate_rsi(prices, period)
    /\ rpc' = "returned"
    /\ UNCHANGED <<prices, period, scoreVars, sentimentVars, investVars, techVars, rotationVars>>

NextRsi == CalculateRsi

SpecRsi == InitRsi /\ [][NextRsi]_vars

\* The Fed analysis of one set of inputs.
InitFed ==
    /\ us_data \in FedUsData
    /\ global_context \in FedGlobalContext
    /\ vn_market \in FedVnMarket
    /\ vn_economic = <<>> /\ risk_tolerance = ""
    /\ ipc = "input" /\ fed_analysis = <<>> /\ bundle = <<>>
    /\ vn_data = <<>> /\ ScoreIdle
    /\ rsi_value = None /\ SentimentIdle
    /\ TechIdle /\ RotationIdle
    /\ RsiIdle

AnalyzeFedVietnamCorrelation ==
    /\ ipc = "input"
    /\ LET a == analyze_fed_vietnam_correlation(us_data, vn_market, global_context) IN
         IF a.raised
           THEN ipc' = "raised" /\ UNCHANGED fed_analysis
           ELSE ipc' = "returned" /\ fed_analysis' = a
    /\ UNCHANGED <<investInputs, bundle, scoreVars, sentimentVars, rsiVars, techVars, rotationVars>>

NextFed == AnalyzeFedVietnamCorrelation

SpecFed == InitFed /\ [][NextFed]_vars

RecoInput(us, e, vm, gc, tol) ==
    /\ us_data = us /\ vn_economic = e /\ vn_market = vm
    /\ global_context = gc /\ risk_tolerance = tol

\* The recommendation for one set of inputs, as the analysis page asks for
\* it: every macro snapshot under a few Fed settings, every Fed setting under
\* a few snapshots, the advice inputs (readings, breadth, currency,
\* tolerance), and no data at all under each tolerance.
InitReco ==
    /\ \/ \E us \in FewUsData, o \in MacroOptions :
             RecoInput(us, MkDict(MacroKeys, o), EmptyDict, EmptyDict, "Moderate")
       \/ \E us \in RecoUsData, e \in FewSnapshots,
             r \in Some(NumOrNone({350 - Spread, 650 + Spread})),
             dx \in Some({Num(20 + Spread), Num(-20 - Spread)}) :
             RecoInput(us, e, MkVnMarket(r, <<>>), MkGlobalContext(dx, <<>>), "Moderate")
       \/ \E us \in FewUsData \ {EmptyDict}, e \in FewSnapshots \ {EmptyDict},
             r \in Some(NumOrNone(RsiReadings)), b \in Some(Vn30Analyses),
             uv \in Some(NumOrNone(UsdVndChanges)), tol \in RiskTolerances :
             RecoInput(us, e, MkVnMarket(r, b), MkGlobalContext(<<>>, uv), tol)
       \/ \E tol \in RiskTolerances :
             RecoInput(EmptyDict, EmptyDict, EmptyDict, EmptyDict, tol)
    /\ ipc = "input" /\ fed_analysis = <<>> /\ bundle = <<>>
    /\ vn_data = <<>> /\ ScoreIdle
    /\ rsi_value = None /\ SentimentIdle
    /\ TechIdle /\ RotationIdle
    /\ RsiIdle

GenerateRecommendation ==
    /\ ipc = "input"
    /\ LET b == generate_comprehensive_investment_recommendation(
                    us_data, vn_economic, vn_market, global_context, risk_tolerance) IN
         IF b.raised
           THEN ipc' = "raised" /\ UNCHANGED <<fed_analysis, bundle>>
           ELSE ipc' = "returned" /\ fed_analysis' = b.fed_analysis /\ bundle' = b
    /\ UNCHANGED <<investInputs, scoreVars, sentimentVars, rsiVars, techVars, rotationVars>>

NextReco == GenerateRecommendation

SpecReco == InitReco /\ [][NextReco]_vars

\* The technical indicators of one price frame, by either module.
InitTech ==
    /\ df \in Frames
    /\ variant \in {"vn", "vn_enhanced"}
    /\ tpc = "input" /\ indicators = <<>>
    /\ vn_data = <<>> /\ ScoreIdle
    /\ rsi_value = None /\ SentimentIdle
    /\ RsiIdle /\ InvestIdle /\ RotationIdle

CalculateTechnicalIndicators ==
    /\ tpc = "input" /\ variant = "vn"
    /\ indicators' = calculate_technical_indicators(df)
    /\ tpc' = "returned"
    /\ UNCHANGED <<df, variant, scoreVars, sentimentVars, rsiVars, investVars, rotationVars>>

CalculateTechnicalIndicatorsEnhanced ==
    /\ tpc = "input" /\ variant = "vn_enhanced"
    /\ indicators' = calculate_technical_indicators_enhanced(df)
    /\ tpc' = "returned"
    /\ UNCHANGED <<df, variant, scoreVars, sentimentVars, rsiVars, investVars, rotationVars>>

NextTech == CalculateTechnicalIndicators \/ CalculateTechnicalIndicatorsEnhanced

SpecTech == InitTech /\ [][NextTech]_vars

\* The rotation signals of one sector table.
InitRotation ==
    /\ \E n \in 0..MaxSectors : \E f \in [1..n -> SectorReturns] :
          sector_data = [i \in 1..n |-> [sector |-> SectorNames[i], data |-> f[i]]]
    /\ apc = "input" /\ rotation_signals = <<>>
    /\ vn_data = <<>> /\ ScoreIdle
    /\ rsi_value = None /\ SentimentIdle
    /\ RsiIdle /\ InvestIdle /\ TechIdle

CalculateSectorRotationSignals ==
    /\ apc = "input"
    /\ rotation_signals' = calculate_sector_rotation_signals(sector_data)
    /\ apc' = "returned"
    /\ UNCHANGED <<sector_data, scoreVars, sentimentVars, rsiVars, investVars, techVars>>

NextRotation == CalculateSectorRotationSignals

SpecRotation == InitRotation /\ [][NextRotation]_vars

(* ------------------------------------------------------------------ *)
(* Properties of calculate_economic_score (specification Spec)         *)
(* ------------------------------------------------------------------ *)
\* The indicator is in the snapshot with a non-null value.
Present(d, k) == k \in DOMAIN d /\ d[k].value.kind = "num"

\* The rule table as the specification states it, in tenths (hundredths for
\* the policy-rate change).
TableGdp(x) == IF x > 65 THEN 15 ELSE IF x > 50 THEN 10 ELSE -10
TableInflation(x) == IF x >= 20 /\ x <= 40 THEN 12 ELSE IF x < 20 \/ x > 60 THEN -8 ELSE 5
TablePmi(x) == IF x > 520 THEN 10 ELSE IF x > 500 THEN 5 ELSE -8
TableTrade(x) == IF x > 10 THEN 8 ELSE IF x > -10 THEN 3 ELSE -5
TableFx(x) == IF x > 1000 THEN 7 ELSE IF x > 800 THEN 3 ELSE -3
TablePolicy(c) == IF c < -25 THEN 8 ELSE IF c > 25 THEN -5 ELSE 3

TableDelta(d, k) ==
    IF ~Present(d, k) THEN 0
    ELSE LET x == d[k].value.v IN
         CASE k = "gdp_growth_yoy" -> TableGdp(x)
           [] k = "inflation_rate" -> TableInflation(x)
           [] k = "manufacturing_pmi" -> TablePmi(x)
           [] k = "balance_of_trade" -> TableTrade(x)
           [] k = "fx_reserves" -> TableFx(x)
           [] k = "policy_rate" ->
                IF d[k].change.kind = "num" THEN TablePolicy(d[k].change.v) ELSE 0

TableSum(d) ==
    TableDelta(d, "gdp_growth_yoy") + TableDelta(d, "inflation_rate")
        + TableDelta(d, "manufacturing_pmi") + TableDelta(d, "balance_of_trade")
        + TableDelta(d, "fx_reserves") + TableDelta(d, "policy_rate")

OnlyGdp70 == DOMAIN vn_data = {"gdp_growth_yoy"} /\ vn_data["gdp_growth_yoy"].value = Num(70)

\* C1: the returned score is clamp(50 + the sum of the rule table's deltas
\* over the indicators present, 0, 100); a snapshot holding only
\* gdp_growth_yoy = 7.0 scores 65, is rated Good and has exactly one factor,
\* "Strong GDP growth (7.0%)".
C1_RuleTable ==
    pc = "returned" =>
        /\ score = (IF 50 + TableSum(vn_data) > 100 THEN 100
                    ELSE IF 50 + TableSum(vn_data) < 0 THEN 0
                    ELSE 50 + TableSum(vn_data))
        /\ OnlyGdp70 =>
              /\ score = 65
              /\ rating = "Good"
              /\ factors = <<Factor("green", "Strong GDP growth", "7.0%")>>

C1_Witness == pc = "returned" /\ OnlyGdp70 /\ score = 65 /\ Len(factors) = 1

\* C2: the returned score lies in [0,100] for every snapshot.
C2_ScoreInRange == pc = "returned" => (score >= 0 /\ score <= 100)

C2_Witness == pc = "returned" /\ RawScore(vn_data).score > 100 /\ score = 100

\* C3: the rating is determined by the clamped score alone: Excellent iff
\* score >= 75, Good iff 60..74, Fair iff 45..59, Poor iff 30..44, Critical
\* iff below 30.
C3_RatingBands ==
    pc = "returned" =>
        /\ rating = "Excellent" <=> score >= 75
        /\ rating = "Good" <=> (score >= 60 /\ score < 75)
        /\ rating = "Fair" <=> (score >= 45 /\ score < 60)
        /\ rating = "Poor" <=> (score >= 30 /\ score < 45)
        /\ rating = "Critical" <=> score < 30

C3_Witness == pc = "returned" /\ score = 75 /\ rating = "Excellent"

\* C4: the empty snapshot returns exactly (50, "Fair", []).
C4_EmptySnapshot ==
    (pc = "returned" /\ DOMAIN vn_data = {}) =>
        (score = 50 /\ rating = "Fair" /\ factors = <<>>)

C4_Witness == pc = "returned" /\ DOMAIN vn_data = {} /\ score = 50

\* The snapshot without key k.
Without(d, k) == [j \in DOMAIN d \ {k} |-> d[j]]

\* The snapshot with indicator k's value replaced by n.
WithValue(d, k, n) == [d EXCEPT ![k].value = Num(n)]

AllKeys == {ScoredKeys[i] : i \in 1..6}

\* C5: an indicator that is absent, or present with a null value, is skipped:
\* the call does not fail, and removing that indicator from the snapshot
\* leaves the pre-clamp score, the factors and the returned result unchanged.
C5_NullSkipped ==
    /\ pc # "raised"
    /\ pc = "returned" =>
         \A k \in AllKeys :
            ~Present(vn_data, k) =>
               LET raw == RawScore(Without(vn_data, k)) IN
                 /\ ~raw.raised
                 /\ raw.score = RawScore(vn_data).score
                 /\ raw.factors = factors
                 /\ Normalize(raw.score) = score

C5_Witness ==
    /\ pc = "returned"
    /\ "gdp_growth_yoy" \in DOMAIN vn_data
    /\ vn_data["gdp_growth_yoy"].value = None
    /\ Present(vn_data, "inflation_rate")
    /\ Len(factors) = 1

\* The position, in evaluation order, of the indicator a factor reports on.
FactorRank(f) ==
    CASE f.label \in {"Strong GDP growth", "Moderate GDP growth", "Slow GDP growth"} -> 1
      [] f.label \in {"Healthy inflation", "Concerning inflation", "Elevated inflation"} -> 2
      [] f.label \in {"Expanding manufacturing", "Slight expansion",
                      "Contracting manufacturing"} -> 3
      [] f.label \in {"Trade surplus", "Balanced trade", "Trade deficit"} -> 4
      [] f.label \in {"Strong FX reserves"} -> 5
      [] f.label \in {"Accommodative policy", "Tightening policy", "Stable policy"} -> 6
      [] OTHER -> 0

\* C6: the factors are ordered GDP, inflation, PMI, trade balance, FX
\* reserves, policy rate: no factor of an earlier indicator follows a factor
\* of a later one.
C6_FactorOrder ==
    pc = "returned" =>
        \A i, j \in 1..Len(factors) :
            i < j => FactorRank(factors[i]) <= FactorRank(factors[j])

C6_Witness ==
    /\ pc = "returned"
    /\ Len(factors) = 6
    /\ FactorRank(factors[1]) = 1
    /\ FactorRank(factors[6]) = 6

\* C7: there are at most as many factors as scored indicators present with a
\* non-null value, and every factor reports on an indicator that is present.
C7_NoPhantomFactors ==
    pc = "returned" =>
        /\ Len(factors) <= Cardinality({k \in AllKeys : Present(vn_data, k)})
        /\ \A i \in 1..Len(factors) :
              /\ FactorRank(factors[i]) \in 1..6
              /\ Present(vn_data, ScoredKeys[FactorRank(factors[i])])

C7_Witness ==
    /\ pc = "returned"
    /\ Cardinality({k \in AllKeys : Present(vn_data, k)}) = 3
    /\ Len(factors) = 1
    /\ "inflation_rate" \notin DOMAIN vn_data

\* C8: two snapshots that differ only in the gdp_growth_yoy value: the one
\* with the larger GDP growth never has the smaller score.
C8_GdpMonotonic ==
    (pc = "returned" /\ Present(vn_data, "gdp_growth_yoy")) =>
        \A n \in GdpValues :
            n > vn_data["gdp_growth_yoy"].value.v =>
                calculate_economic_score(WithValue(vn_data, "gdp_growth_yoy", n)).score >= score

C8_Witness ==
    /\ pc = "returned"
    /\ Present(vn_data, "gdp_growth_yoy")
    /\ vn_data["gdp_growth_yoy"].value = Num(40)
    /\ calculate_economic_score(WithValue(vn_data, "gdp_growth_yoy", 70)).score = score + 25

\* Raising indicator k of the scored snapshot to any larger value of
\* targets never decreases the score.
RaisingKeepsScore(k, targets) ==
    (pc = "returned" /\ Present(vn_data, k)) =>
        \A n \in targets :
            n > vn_data[k].value.v =>
                calculate_economic_score(WithValue(vn_data, k, n)).score >= score

\* C9 as stated: for each of inflation, manufacturing PMI, trade balance and
\* FX reserves, increasing the value with every other field fixed never
\* decreases the score.
C9_AsStated ==
    /\ RaisingKeepsScore("inflation_rate", InflationValues)
    /\ RaisingKeepsScore("manufacturing_pmi", PmiValues)
    /\ RaisingKeepsScore("balance_of_trade", TradeValues)
    /\ RaisingKeepsScore("fx_reserves", FxValues)

\* C9 amended: increasing manufacturing PMI, trade balance or FX reserves
\* never decreases the score; increasing inflation never decreases it as long
\* as the increased value is at most 4.0%.
C9_MonotonicInputs ==
    /\ RaisingKeepsScore("inflation_rate", {n \in InflationValues : n <= 40})
    /\ RaisingKeepsScore("manufacturing_pmi", PmiValues)
    /\ RaisingKeepsScore("balance_of_trade", TradeValues)
    /\ RaisingKeepsScore("fx_reserves", FxValues)

C9_Witness ==
    /\ pc = "returned"
    /\ Present(vn_data, "inflation_rate")
    /\ vn_data["inflation_rate"].value = Num(20 - Spread)
    /\ Present(vn_data, "manufacturing_pmi")
    /\ vn_data["manufacturing_pmi"].value = Num(500)
    /\ calculate_economic_score(WithValue(vn_data, "inflation_rate", 40)).score = score + 20
    /\ calculate_economic_score(WithValue(vn_data, "manufacturing_pmi", 520 + Spread)).score
          = score + 18

(* ------------------------------------------------------------------ *)
(* Properties of get_market_sentiment (specification SpecSentiment)    *)
(* ------------------------------------------------------------------ *)
\* C10: get_market_sentiment is total: a missing RSI gives Unknown/neutral,
\* RSI > 70 Overbought/negative, RSI < 30 Oversold/positive, anything else
\* Neutral/neutral; exactly 30 and exactly 70 are Neutral, -5 is Oversold and
\* 150 is Overbought.
C10_SentimentTotal ==
    spc = "returned" =>
        /\ sentiment \in {<<"Unknown", "neutral">>, <<"Oversold", "positive">>,
                          <<"Neutral", "neutral">>, <<"Overbought", "negative">>}
        /\ rsi_value.kind # "num" <=> sentiment = <<"Unknown", "neutral">>
        /\ (rsi_value.kind = "num" /\ rsi_value.v > 700) <=> sentiment = <<"Overbought", "negative">>
        /\ (rsi_value.kind = "num" /\ rsi_value.v < 300) <=> sentiment = <<"Oversold", "positive">>
        /\ rsi_value \in {Num(300), Num(700)} => sentiment = <<"Neutral", "neutral">>
        /\ rsi_value \in {Num(-50), Num(0), Num(299)} => sentiment = <<"Oversold", "positive">>
        /\ rsi_value \in {Num(701), Num(1500)} => sentiment = <<"Overbought", "negative">>

C10_Witness ==
    spc = "returned" /\ rsi_value = Num(700) /\ sentiment = <<"Neutral", "neutral">>

(* ------------------------------------------------------------------ *)
(* Properties of calculate_rsi (specification SpecRsi)                 *)
(* ------------------------------------------------------------------ *)
IsNoValue(e) == e.kind = "nan"

\* e is a number within [0,100].
InRsiRange(e) == e.kind = "num" /\ e.den > 0 /\ e.num >= 0 /\ e.num <= 100 * e.den

\* No price up to sample j is lower than the one before it.
NoFallUpTo(p, j) == \A i \in 1..(j - 1) : p[i + 1] >= p[i]

NonDecreasing(p) == NoFallUpTo(p, Len(p))
StrictlyIncreasing(p) == \A i \in 1..(Len(p) - 1) : p[i + 1] > p[i]
StrictlyDecreasing(p) == \A i \in 1..(Len(p) - 1) : p[i + 1] < p[i]
ConstantSeries(p) == \A i \in 1..(Len(p) - 1) : p[i + 1] = p[i]

\* The float handed on as a reading in tenths.  An RSI that is not a whole
\* number of tenths is rounded toward 50.0, which keeps every strict
\* comparison of the source against 30, 35, 65 and 70 exact.
AsReading(e) ==
    IF e.kind # "num" THEN NaN
    ELSE LET lo == (10 * e.num) \div e.den
             exact == (10 * e.num) % e.den = 0
         IN  Num(IF exact \/ lo < 500 THEN lo ELSE lo + 1)

\* C11: every entry calculate_rsi returns is "no value" or a number in
\* [0,100].
C11_RsiInRange ==
    rpc = "returned" =>
        \A j \in 1..Len(rsi) : IsNoValue(rsi[j]) \/ InRsiRange(rsi[j])

C11_Witness ==
    /\ rpc = "returned"
    /\ Len(rsi) = MaxLen
    /\ period = 14
    /\ IsNoValue(rsi[1])
    /\ rsi[2] = FNum(0, 1)
    /\ rsi[MaxLen].num > 0
    /\ rsi[MaxLen].num < 100 * rsi[MaxLen].den

\* C12: wherever the smoothed average loss is 0 (no price has fallen yet)
\* the entry is "no value", never infinity or 100; for a constant series
\* every entry is "no value" and the sentiment of the last entry is
\* Unknown/neutral.
C12_ZeroLossNoValue ==
    rpc = "returned" =>
        /\ \A j \in 1..Len(rsi) : NoFallUpTo(prices, j) => IsNoValue(rsi[j])
        /\ (ConstantSeries(prices) /\ Len(prices) > 0) =>
              /\ \A j \in 1..Len(rsi) : IsNoValue(rsi[j])
              /\ get_market_sentiment(AsReading(rsi[Len(rsi)])) = <<"Unknown", "neutral">>

C12_Witness ==
    /\ rpc = "returned"
    /\ Len(prices) = MaxLen
    /\ ConstantSeries(prices)
    /\ IsNoValue(rsi[MaxLen])

\* C13 as stated: for a monotonically increasing price series the last
\* entries are numeric and approach 100.
C13_AsStated ==
    (rpc = "returned" /\ Len(prices) >= 2 /\ StrictlyIncreasing(prices)) =>
        /\ rsi[Len(rsi)].kind = "num"
        /\ 2 * rsi[Len(rsi)].num > 100 * rsi[Len(rsi)].den

\* e1 <= e2 for two numeric entries.
RsiLeq(e1, e2) == e1.num * e2.den <= e2.num * e1.den

\* C13 amended: a monotonically increasing price series has "no value" at
\* every index; only after some price has fallen is the RSI a number, and
\* each further rise then leaves it no lower, within [0,100].
C13_RisingSeries ==
    rpc = "returned" =>
        /\ NonDecreasing(prices) => \A j \in 1..Len(rsi) : IsNoValue(rsi[j])
        /\ \A j \in 3..Len(rsi) :
              (~NoFallUpTo(prices, j - 1) /\ prices[j] > prices[j - 1]) =>
                  /\ InRsiRange(rsi[j - 1])
                  /\ InRsiRange(rsi[j])
                  /\ RsiLeq(rsi[j - 1], rsi[j])

C13_Witness ==
    /\ rpc = "returned"
    /\ Len(prices) = 3
    /\ StrictlyIncreasing(prices)
    /\ \A j \in 1..3 : IsNoValue(rsi[j])

\* C14: for a strictly decreasing price series every entry after the first
\* is the number 0 (the first, having no delta, is "no value").
C14_FallingSeries ==
    (rpc = "returned" /\ StrictlyDecreasing(prices)) =>
        \A j \in 1..Len(rsi) :
            IF j = 1 THEN IsNoValue(rsi[j])
            ELSE rsi[j].kind = "num" /\ rsi[j].num = 0

C14_Witness ==
    /\ rpc = "returned"
    /\ Len(prices) = 3
    /\ StrictlyDecreasing(prices)
    /\ rsi[3].kind = "num"
    /\ rsi[3].num = 0

\* C15: calculate_rsi(prices, P) returns a series as long as prices whose
\* first P entries are all "no value".
C15_AsStated ==
    rpc = "returned" =>
        /\ Len(rsi) = Len(prices)
        /\ \A j \in 1..Len(rsi) : j <= period => IsNoValue(rsi[j])

(* ------------------------------------------------------------------ *)
(* Properties of analyze_fed_vietnam_correlation (specification SpecFed) *)
(* ------------------------------------------------------------------ *)
\* The field is there and holds a number.
HasNum(d, k, f) == k \in DOMAIN d /\ d[k][f].kind = "num"

\* The US-side rule table as the specification states it, in tenths.
UsTableRate(us) ==
    IF ~HasNum(us, "fed_rate", "value") THEN 0
    ELSE IF us["fed_rate"].value.v > 50 THEN -30
    ELSE IF us["fed_rate"].value.v < 20 THEN 20 ELSE 0

UsTableDirection(us) ==
    IF ~HasNum(us, "fed_rate", "mom_change") THEN 0
    ELSE IF us["fed_rate"].mom_change.v > 1 THEN -15
    ELSE IF us["fed_rate"].mom_change.v < -1 THEN 15 ELSE 0

UsTableInflation(us) ==
    IF ~HasNum(us, "inflation", "value") THEN 0
    ELSE IF us["inflation"].value.v > 40 THEN -20
    ELSE IF us["inflation"].value.v < 25 THEN 15 ELSE 0

UsTableDollar(gc) ==
    IF ~HasNum(gc, "dxy", "change") THEN 0
    ELSE IF gc["dxy"].change.v > 20 THEN -25
    ELSE IF gc["dxy"].change.v < -20 THEN 20 ELSE 0

UsTableDeltas(us, gc) ==
    <<UsTableRate(us), UsTableDirection(us), UsTableInflation(us), UsTableDollar(gc)>>

\* What the VN-Index reading alone contributes.
VnOnly == analyze_fed_vietnam_correlation(EmptyDict, vn_market, EmptyDict)

\* C19: the fed_impact_score is, beside the VN-Index RSI's share, the sum
\* of the US-side deltas (Fed rate > 5 -> -30, < 2 -> +20; rate change
\* > 0.1 -> -15, < -0.1 -> +15; US inflation > 4 -> -20, < 2.5 -> +15; DXY
\* change > 2 -> -25, < -2 -> +20); each branch that fires adds exactly one
\* key factor and a branch whose field is absent adds nothing.
C19_UsRuleTable ==
    ipc = "returned" =>
        LET t == UsTableDeltas(us_data, global_context) IN
          /\ fed_analysis.fed_impact_score
                = t[1] + t[2] + t[3] + t[4] + VnOnly.fed_impact_score
          /\ Len(fed_analysis.key_factors)
                = Cardinality({i \in 1..4 : t[i] # 0}) + Len(VnOnly.key_factors)

C19_Witness ==
    /\ ipc = "returned"
    /\ "indices" \notin DOMAIN vn_market
    /\ UsTableDeltas(us_data, global_context) = <<-30, -15, 15, 20>>
    /\ fed_analysis.fed_impact_score = -10
    /\ Len(fed_analysis.key_factors) = 4

\* The VN-Index RSI handed to the analysis, None when there is none.
VnRsi(vm) ==
    IF "indices" \in DOMAIN vm /\ "vnindex" \in DOMAIN vm["indices"]
      THEN vm["indices"]["vnindex"].rsi ELSE None

\* C20: every non-missing VN-Index RSI r in [0,100] adds +10 to the
\* fed_impact_score when r < 35 and -10 when r > 65, nothing otherwise,
\* r = 0 included.
C20_AsStated ==
    (ipc = "returned" /\ VnRsi(vn_market).kind = "num"
        /\ VnRsi(vn_market).v >= 0 /\ VnRsi(vn_market).v <= 1000) =>
        fed_analysis.fed_impact_score
            = analyze_fed_vietnam_correlation(us_data, EmptyDict, global_context).fed_impact_score
                + (IF VnRsi(vn_market).v < 350 THEN 10
                   ELSE IF VnRsi(vn_market).v > 650 THEN -10 ELSE 0)

(* ------------------------------------------------------------------ *)
(* Properties of generate_comprehensive_investment_recommendation      *)
(* (specification SpecReco)                                            *)
(* ------------------------------------------------------------------ *)
\* C16: the bundle's overall_score is (fed_impact_score + 50 + macro_score) / 2
\* for the scores of the function's own two sub-analyses of the same inputs
\* (overall_score is held in tenths: 20 and 60 give 65.0).
C16_OverallScore ==
    ipc = "returned" =>
        /\ bundle.fed_analysis
              = analyze_fed_vietnam_correlation(us_data, vn_market, global_context)
        /\ bundle.macro_analysis
              = analyze_vietnam_macro_market_correlation(vn_economic, vn_market)
        /\ 2 * bundle.overall_score
              = 10 * (bundle.fed_analysis.fed_impact_score + 50
                        + bundle.macro_analysis.macro_score)

C16_Witness ==
    /\ ipc = "returned"
    /\ bundle.fed_analysis.fed_impact_score = 20
    /\ bundle.macro_analysis.macro_score = 60
    /\ bundle.overall_score = 650

Counted(d, k, f) ==
    IF k \in DOMAIN d /\ d[k][f].kind = "num" /\ d[k][f].v # 0 THEN <<d[k][f].v>> ELSE <<>>

\* The macro analysis' own rule table, in tenths (hundredths for the policy
\* change).
MacroTableGdp(d) ==
    LET x == Counted(d, "gdp_growth_yoy", "value") IN
    IF x = <<>> THEN 0 ELSE IF x[1] > 65 THEN 15 ELSE IF x[1] < 50 THEN -10 ELSE 0

MacroTableInflation(d) ==
    LET x == Counted(d, "inflation_rate", "value") IN
    IF x = <<>> THEN 0
    ELSE IF x[1] >= 20 /\ x[1] <= 40 THEN 10 ELSE IF x[1] > 50 THEN -15 ELSE 0

MacroTablePmi(d) ==
    LET x == Counted(d, "manufacturing_pmi", "value") IN
    IF x = <<>> THEN 0 ELSE IF x[1] > 520 THEN 12 ELSE IF x[1] < 500 THEN -12 ELSE 0

MacroTableTrade(d) ==
    LET x == Counted(d, "balance_of_trade", "value") IN
    IF x = <<>> THEN 0 ELSE IF x[1] > 20 THEN 8 ELSE IF x[1] < -10 THEN -8 ELSE 0

MacroTablePolicy(d) ==
    LET c == Counted(d, "policy_rate", "change") IN
    IF c = <<>> \/ Counted(d, "policy_rate", "value") = <<>> THEN 0
    ELSE IF c[1] < -25 THEN 10 ELSE IF c[1] > 25 THEN -8 ELSE 0

MacroTableSum(d) ==
    MacroTableGdp(d) + MacroTableInflation(d) + MacroTablePmi(d) + MacroTableTrade(d)
        + MacroTablePolicy(d)

C18_RiskTable ==
    ipc = "returned" =>
        LET fedRisk == bundle.fed_analysis.risk_level
            macro == bundle.macro_analysis.macro_score
            high == fedRisk = "High" \/ macro < 40
            low == ~high /\ fedRisk = "Low" /\ macro > 70
        IN  /\ bundle.risk_level \in {"High", "Medium", "Low"}
            /\ (bundle.risk_level = "High") = high
            /\ (bundle.risk_level = "Low") = low

C18_Witness ==
    /\ ipc = "returned"
    /\ bundle.fed_analysis.risk_level = "High"
    /\ bundle.macro_analysis.macro_score = 80
    /\ bundle.risk_level = "High"

\* C21 as stated: the recommendation never fails; with every upstream entry
\* absent or present with null fields it returns a complete bundle.
C21_AsStated == ipc # "raised"

\* C22: with every input mapping empty, under any risk tolerance, the bundle
\* holds the neutral defaults: fed_impact_score 0, macro_score 50,
\* overall_score 50.0, market_timing Neutral, risk_level Medium, and no
\* opportunities or risk factors.
C22_NeutralDefaults ==
    (ipc = "returned" /\ DOMAIN us_data = {} /\ DOMAIN vn_economic = {}
        /\ DOMAIN vn_market = {} /\ DOMAIN global_context = {}) =>
        /\ bundle.fed_analysis.fed_impact_score = 0
        /\ bundle.macro_analysis.macro_score = 50
        /\ bundle.overall_score = 500
        /\ bundle.market_timing = "Neutral"
        /\ bundle.risk_level = "Medium"
        /\ bundle.opportunities = <<>>
        /\ bundle.risk_factors = <<>>

C22_Witness ==
    /\ ipc = "returned"
    /\ DOMAIN us_data = {} /\ DOMAIN vn_economic = {}
    /\ DOMAIN vn_market = {} /\ DOMAIN global_context = {}
    /\ risk_tolerance = "Aggressive"
    /\ bundle.overall_score = 500 /\ bundle.market_timing = "Neutral"

\* C25 as stated: the macro_score of the macro analysis stays on the 0-100
\* scale for every combination of indicators.
C25_AsStated ==
    ipc = "returned" =>
        (bundle.macro_analysis.macro_score >= 0 /\ bundle.macro_analysis.macro_score <= 100)

\* C26 as stated: the overall_score of the bundle (in tenths) lies in
\* [0, 100] for every combination of Fed-side and macro-side inputs.
C26_AsStated ==
    ipc = "returned" => (bundle.overall_score >= 0 /\ bundle.overall_score <= 1000)

\* C28 as stated: every present, non-null GDP growth below 5.0, zero
\* included, subtracts 10 from macro_score, appends one "Slow GDP growth"
\* driver and sets the defensive_favored rotation.
C28_AsStated ==
    (ipc = "returned" /\ "gdp_growth_yoy" \in DOMAIN vn_economic
        /\ vn_economic["gdp_growth_yoy"].value.kind = "num"
        /\ vn_economic["gdp_growth_yoy"].value.v < 50) =>
        LET m == bundle.macro_analysis IN
          /\ m.macro_score
                = 50 - 10 + MacroTableInflation(vn_economic) + MacroTablePmi(vn_economic)
                    + MacroTableTrade(vn_economic) + MacroTablePolicy(vn_economic)
          /\ Cardinality({i \in 1..Len(m.economic_drivers) :
                            m.economic_drivers[i].label = "Slow GDP growth"}) = 1
          /\ \E i \in 1..Len(m.sector_rotation) : m.sector_rotation[i][1] = "defensive_favored"

(* ------------------------------------------------------------------ *)
(* Range and consistency of the Fed analysis (specification SpecFed)   *)
(* ------------------------------------------------------------------ *)
\* C27: the fed_impact_score lies in [-100, +100] for every combination of
\* present and absent inputs and branch outcomes.
C27_FedScoreRange ==
    ipc = "returned" =>
        (fed_analysis.fed_impact_score >= -100 /\ fed_analysis.fed_impact_score <= 100)

C27_Witness ==
    /\ ipc = "returned"
    /\ fed_analysis.fed_impact_score = -100
    /\ Len(fed_analysis.key_factors) = 5

\* C29 as stated: the risk_level is Low exactly when fed_impact_score > 20,
\* it is High whenever fed_impact_score < -20, and it is High whenever the
\* Fed rate is above 5.0.
C29_AsStated ==
    ipc = "returned" =>
        /\ (fed_analysis.risk_level = "Low") = (fed_analysis.fed_impact_score > 20)
        /\ (fed_analysis.fed_impact_score < -20 => fed_analysis.risk_level = "High")
        /\ (("fed_rate" \in DOMAIN us_data /\ PyGt(us_data["fed_rate"].value, 50))
                => fed_analysis.risk_level = "High")

(* ------------------------------------------------------------------ *)
(* Properties of _calculate_technical_indicators (specification SpecTech) *)
(* ------------------------------------------------------------------ *)
\* The number of valid closes of the frame.
ValidSamples == IF NoCloses(df) THEN 0 ELSE Len(DropNa(df["close"]))

\* The sample count under which the module computes no RSI: the guard of
\* the RSI block in vn.py, the guard of the whole function in vn_enhanced.py.
RsiMinimum == IF variant = "vn" THEN 14 ELSE 20

Emitted(k) == k \in DOMAIN indicators

\* C23: the function returns for every frame and degrades per indicator: rsi
\* is emitted only when the valid closes reach the RSI minimum; sma_20, the
\* Bollinger bands, support and resistance exactly when there are 20 or
\* more; sma_50 exactly from 50 on and sma_200 exactly from 200 on; what
\* lacks its samples is absent while the rest is still returned.
C23_PerIndicator ==
    /\ tpc \in {"input", "returned"}
    /\ tpc = "returned" =>
        /\ Emitted("rsi") => ValidSamples >= RsiMinimum
        /\ \A k \in {"sma_20", "bb_upper", "bb_lower", "support", "resistance"} :
              Emitted(k) = (ValidSamples >= 20)
        /\ Emitted("sma_50") = (ValidSamples >= 50)
        /\ Emitted("sma_200") = (ValidSamples >= 200)

C23_Witness ==
    /\ tpc = "returned" /\ variant = "vn"
    /\ ValidSamples = 49
    /\ Emitted("rsi") /\ Emitted("sma_20") /\ Emitted("bb_upper")
    /\ ~Emitted("sma_50") /\ ~Emitted("sma_200")

\* C24 as stated: bb_position is (last_close - bb_lower) / (bb_upper -
\* bb_lower), and it is absent whenever the band width is zero.
C24_AsStated ==
    (tpc = "returned" /\ Emitted("bb_upper")) =>
        LET lower == indicators["bb_lower"].v
            width == indicators["bb_upper"].v - lower
            c == DropNa(df["close"])
        IN  IF width = 0 THEN ~Emitted("bb_position")
            ELSE /\ Emitted("bb_position")
                 /\ indicators["bb_position"] = Num(((c[Len(c)] * 100 - lower) * 100) \div width)

(* ------------------------------------------------------------------ *)
(* Properties of calculate_sector_rotation_signals                     *)
(* (specification SpecRotation)                                        *)
(* ------------------------------------------------------------------ *)
\* Each item of the ranking scores at least as much as the next.
RankedDescending(q) == \A i \in 1..(Len(q) - 1) : q[i][2] >= q[i + 1][2]

\* C30: the sectors are ranked by weighted score in descending order, so
\* rotation_strength and the spread handed to the recommendation are never
\* negative, the recommendation is one of the Strong-rotation (spread > 5),
\* Moderate-rotation (> 2) or Balanced-allocation texts, and market_breadth
\* lies in [0, 1].
C30_RotationSignals ==
    (apc = "returned" /\ sector_data # <<>>) =>
        LET ranked == SortedSectors(SectorPerformance(sector_data))
            spread == PerformanceSpread(ranked)
            top == ranked[1][1]
        IN  /\ RankedDescending(ranked)
            /\ Len(ranked) = Len(sector_data)
            /\ {ranked[i] : i \in 1..Len(ranked)}
                  = {SectorPerformance(sector_data)[i] : i \in 1..Len(sector_data)}
            /\ rotation_signals.leading_sectors[1] = top
            /\ spread >= 0
            /\ rotation_signals.rotation_strength = spread
            /\ rotation_signals.recommendation =
                  (IF spread > 500
                     THEN "Strong rotation into " \o top \o " - consider overweight"
                   ELSE IF spread > 200 THEN "Moderate rotation favoring " \o top
                   ELSE "Balanced allocation - no clear rotation pattern")
            /\ rotation_signals.market_breadth.num >= 0
            /\ rotation_signals.market_breadth.num <= rotation_signals.market_breadth.den

C30_Witness ==
    /\ apc = "returned" /\ Len(sector_data) = 3
    /\ rotation_signals.rotation_strength = 700
    /\ rotation_signals.leading_sectors = <<"Technology", "Real Estate">>
    /\ rotation_signals.lagging_sectors = <<"Real Estate", "Banking">>
    /\ rotation_signals.recommendation = "Strong rotation into Technology - consider overweight"
    /\ rotation_signals.market_breadth = FNum(2, 3)

====
